---------------------------- MODULE Spec2Model ----------------------------
(***************************************************************************)
(* EPCL VEHS dashboard (client/src/components/SafetyDashboard.tsx).        *)
(*                                                                         *)
(* The model follows the browser's execution model: every action is one    *)
(* event-loop task together with the promise continuations (microtasks)    *)
(* it makes runnable, because nothing else can run between a promise       *)
(* settling and the code awaiting it.  React state is the logical state    *)
(* after the queued updates of the task have been applied in order.        *)
(***************************************************************************)
EXTENDS Integers, Sequences, FiniteSets, TLC

(***************************************************************************)
(* Bounds of the model.                                                    *)
(***************************************************************************)
\* user actions in one run (Refresh clicks and file selections), after the
\* mount effect's refreshAll
MaxCalls == 2

\* the longest chunk reader.read() delivers, in characters
MaxChunk == 80

\* questions that pass sendQuestion's guard in one run
MaxTurns == 2

\* times the insights dialog of a card is opened in one run
MaxOpens == 2

(***************************************************************************)
(* JavaScript strings are sequences of one-character strings, so that      *)
(* toLowerCase and endsWith are computed character by character.           *)
(***************************************************************************)
UpperAlpha == <<"A","B","C","D","E","F","G","H","I","J","K","L","M",
                "N","O","P","Q","R","S","T","U","V","W","X","Y","Z">>
LowerAlpha == <<"a","b","c","d","e","f","g","h","i","j","k","l","m",
                "n","o","p","q","r","s","t","u","v","w","x","y","z">>

ToLowerChar(c) ==
  IF \E i \in 1..Len(UpperAlpha) : UpperAlpha[i] = c
  THEN LowerAlpha[CHOOSE i \in 1..Len(UpperAlpha) : UpperAlpha[i] = c]
  ELSE c

ToLowerCase(s) == [i \in 1..Len(s) |-> ToLowerChar(s[i])]

EndsWith(s, suffix) ==
  /\ Len(s) >= Len(suffix)
  /\ SubSeq(s, Len(s) - Len(suffix) + 1, Len(s)) = suffix

Digits == <<"0","1","2","3","4","5","6","7","8","9">>

IsDigit(c) == \E i \in 1..Len(Digits) : Digits[i] = c

DigitValue(c) == (CHOOSE i \in 1..Len(Digits) : Digits[i] = c) - 1

(***************************************************************************)
(* JavaScript values: every value is a record [t, v]; t is the type tag.   *)
(* "nan" is the number NaN.  An object's v is a function from its keys     *)
(* (strings, as character sequences) to values.                            *)
(***************************************************************************)
JUndef == [t |-> "undef", v |-> 0]
JNull == [t |-> "null", v |-> 0]
JNaN == [t |-> "nan", v |-> 0]
JBool(b) == [t |-> "bool", v |-> b]
JNum(n) == [t |-> "num", v |-> n]
JStr(s) == [t |-> "str", v |-> s]
JArr(a) == [t |-> "arr", v |-> a]
JObj(f) == [t |-> "obj", v |-> f]

EmptyObj == [k \in {} |-> JUndef]

\* the object o with key k set to value x (a later assignment overrides)
ObjSet(o, k, x) == [q \in DOMAIN o \cup {k} |-> IF q = k THEN x ELSE o[q]]

\* !x is false
Truthy(j) ==
  CASE j.t = "undef" -> FALSE
    [] j.t = "null" -> FALSE
    [] j.t = "nan" -> FALSE
    [] j.t = "bool" -> j.v
    [] j.t = "num" -> j.v # 0
    [] j.t = "str" -> j.v # <<>>
    [] OTHER -> TRUE

IsNullish(j) == j.t \in {"undef", "null"}

\* a || b
JOr(a, b) == IF Truthy(a) THEN a ELSE b

\* j.<key> on a value that is not null or undefined
Get(j, key) ==
  IF j.t = "obj" /\ key \in DOMAIN j.v THEN j.v[key] ELSE JUndef

\* j[i] on a value that is not null or undefined; i counts from 0
Index(j, i) ==
  CASE j.t = "arr" -> IF i + 1 \in DOMAIN j.v THEN j.v[i + 1] ELSE JUndef
    [] j.t = "str" -> IF i + 1 \in DOMAIN j.v THEN JStr(<<j.v[i + 1]>>) ELSE JUndef
    [] OTHER -> JUndef

\* j?.<key>
OptGet(j, key) == IF IsNullish(j) THEN JUndef ELSE Get(j, key)

\* j?.[i]
OptIndex(j, i) == IF IsNullish(j) THEN JUndef ELSE Index(j, i)

RECURSIVE DigitsToNat(_)
DigitsToNat(s) ==
  IF s = <<>> THEN 0
  ELSE 10 * DigitsToNat(SubSeq(s, 1, Len(s) - 1)) + DigitValue(s[Len(s)])

\* Number(s) for a string of the model: empty, all digits, or not a numeral
StrToNumber(s) ==
  IF s = <<>> THEN JNum(0)
  ELSE IF \A i \in 1..Len(s) : IsDigit(s[i]) THEN JNum(DigitsToNat(s))
  ELSE JNaN

\* Number(j)
RECURSIVE ToNumber(_)
ToNumber(j) ==
  CASE j.t = "undef" -> JNaN
    [] j.t = "null" -> JNum(0)
    [] j.t = "nan" -> JNaN
    [] j.t = "bool" -> JNum(IF j.v THEN 1 ELSE 0)
    [] j.t = "num" -> j
    [] j.t = "str" -> StrToNumber(j.v)
    [] j.t = "arr" ->
         IF Len(j.v) = 0 THEN JNum(0)
         ELSE IF Len(j.v) = 1
              THEN (IF IsNullish(j.v[1]) THEN JNum(0) ELSE ToNumber(j.v[1]))
              ELSE JNaN
    [] OTHER -> JNaN

RECURSIVE NatToDigits(_)
NatToDigits(n) ==
  IF n < 10 THEN <<Digits[n + 1]>>
  ELSE NatToDigits(n \div 10) \o <<Digits[(n % 10) + 1]>>

\* String(j) for the values of the model (numbers are naturals); an array
\* is its elements joined by commas, null and undefined elements being empty
RECURSIVE ToStringJS(_)
RECURSIVE JoinElements(_)
JoinElements(a) ==
  IF a = <<>> THEN <<>>
  ELSE (IF IsNullish(a[1]) THEN <<>> ELSE ToStringJS(a[1]))
       \o (IF Len(a) = 1 THEN <<>> ELSE <<",">> \o JoinElements(Tail(a)))

ToStringJS(j) ==
  CASE j.t = "str" -> j.v
    [] j.t = "num" -> NatToDigits(j.v)
    [] j.t = "nan" -> <<"N","a","N">>
    [] j.t = "bool" -> IF j.v THEN <<"t","r","u","e">> ELSE <<"f","a","l","s","e">>
    [] j.t = "null" -> <<"n","u","l","l">>
    [] j.t = "undef" -> <<"u","n","d","e","f","i","n","e","d">>
    [] j.t = "arr" -> JoinElements(j.v)
    [] OTHER -> <<"[","o","b","j","e","c","t"," ","O","b","j","e","c","t","]">>

\* the outcome of an expression that may throw
Ok(x) == [ok |-> TRUE, val |-> x]
Throw(m) == [ok |-> FALSE, msg |-> m]


(***************************************************************************)
(* Property names read by the normalizers.                                 *)
(***************************************************************************)
K_error == <<"e","r","r","o","r">>
K_labels == <<"l","a","b","e","l","s">>
K_datasets == <<"d","a","t","a","s","e","t","s">>
K_data == <<"d","a","t","a">>
K_label == <<"l","a","b","e","l">>
K_name == <<"n","a","m","e">>
K_series == <<"s","e","r","i","e","s">>
K_x_labels == <<"x","_","l","a","b","e","l","s">>
K_y_labels == <<"y","_","l","a","b","e","l","s">>
K_values == <<"v","a","l","u","e","s">>
K_min == <<"m","i","n">>
K_max == <<"m","a","x">>
K_title == <<"t","i","t","l","e">>
K_content == <<"c","o","n","t","e","n","t">>

\* a + b on numbers
NumAdd(a, b) == IF a.t = "nan" \/ b.t = "nan" THEN JNaN ELSE JNum(a.v + b.v)

(***************************************************************************)
(* The normalizers.  Each returns Ok(model) or Throw(message).             *)
(***************************************************************************)
CategoryRows(labels, data) ==
  IF labels.t # "arr" THEN Throw("labels.map is not a function")
  ELSE Ok([i \in 1..Len(labels.v) |->
             [name |-> labels.v[i],
              value |-> ToNumber(JOr(Index(data, i - 1), JNum(0)))]])

parseCategoryChart(json) ==
  IF ~Truthy(json) \/ Truthy(Get(json, K_error)) THEN Ok(<<>>)
  ELSE CategoryRows(JOr(Get(json, K_labels), JArr(<<>>)),
                    JOr(OptGet(OptIndex(Get(json, K_datasets), 0), K_data), JArr(<<>>)))

\* labels.map(f) where results[i] is the outcome of f on label i: the first
\* throw in label order, else the array of the values
MapResult(results) ==
  IF \E i \in 1..Len(results) : ~results[i].ok
  THEN results[CHOOSE i \in 1..Len(results) :
                 ~results[i].ok /\ \A k \in 1..(i - 1) : results[k].ok]
  ELSE Ok([i \in 1..Len(results) |-> results[i].val])

\* the row after datasets.forEach has run over dss for label index i
RECURSIVE StackedRow(_, _, _)
StackedRow(row, dss, i) ==
  IF dss = <<>> THEN Ok(row)
  ELSE IF IsNullish(Head(dss))
       THEN Throw("Cannot read properties of null (reading 'label')")
       ELSE StackedRow(
              ObjSet(row, ToStringJS(JOr(Get(Head(dss), K_label), JStr(K_series))),
                     ToNumber(JOr(OptIndex(Get(Head(dss), K_data), i), JNum(0)))),
              Tail(dss), i)

StackedRows(labels, datasets) ==
  IF labels.t # "arr" THEN Throw("labels.map is not a function")
  ELSE MapResult([i \in 1..Len(labels.v) |->
                    IF datasets.t # "arr" THEN Throw("datasets.forEach is not a function")
                    ELSE StackedRow(ObjSet(EmptyObj, K_name, labels.v[i]),
                                    datasets.v, i - 1)])

parseStackedChart(json) ==
  IF ~Truthy(json) \/ Truthy(Get(json, K_error)) THEN Ok(<<>>)
  ELSE StackedRows(JOr(Get(json, K_labels), JArr(<<>>)),
                   JOr(Get(json, K_datasets), JArr(<<>>)))

\* datasets.reduce((sum, ds) => sum + Number(ds.data?.[i] || 0), sum) over dss
RECURSIVE TrendTotal(_, _, _)
TrendTotal(sum, dss, i) ==
  IF dss = <<>> THEN Ok(sum)
  ELSE IF IsNullish(Head(dss))
       THEN Throw("Cannot read properties of null (reading 'data')")
       ELSE TrendTotal(
              NumAdd(sum, ToNumber(JOr(OptIndex(Get(Head(dss), K_data), i), JNum(0)))),
              Tail(dss), i)

\* { month: String(month), value: total }
TrendDatum(month, total) ==
  IF total.ok THEN Ok([month |-> ToStringJS(month), value |-> total.val]) ELSE total

TrendRows(labels, datasets) ==
  IF labels.t # "arr" THEN Throw("labels.map is not a function")
  ELSE MapResult([i \in 1..Len(labels.v) |->
                    IF datasets.t # "arr" THEN Throw("datasets.reduce is not a function")
                    ELSE TrendDatum(labels.v[i], TrendTotal(JNum(0), datasets.v, i - 1))])

parseMonthlyTrends(json) ==
  IF ~Truthy(json) \/ Truthy(Get(json, K_error)) THEN Ok(<<>>)
  ELSE TrendRows(JOr(Get(json, K_labels), JArr(<<>>)),
                 JOr(Get(json, K_datasets), JArr(<<>>)))

\* rows.flat()
RECURSIVE Flat(_)
Flat(rows) == IF rows = <<>> THEN <<>> ELSE Head(rows) \o Flat(Tail(rows))

\* Math.min(...flat) and Math.max(...flat) on a non-empty sequence of numbers
MathMin(flat) ==
  IF \E i \in 1..Len(flat) : flat[i].t = "nan" THEN JNaN
  ELSE JNum(CHOOSE m \in {flat[i].v : i \in 1..Len(flat)} :
              \A i \in 1..Len(flat) : m <= flat[i].v)

MathMax(flat) ==
  IF \E i \in 1..Len(flat) : flat[i].t = "nan" THEN JNaN
  ELSE JNum(CHOOSE m \in {flat[i].v : i \in 1..Len(flat)} :
              \A i \in 1..Len(flat) : m >= flat[i].v)

EmptyHeatMatrix ==
  [x_labels |-> <<>>, y_labels |-> <<>>, values |-> <<>>,
   min |-> JNum(0), max |-> JNum(0), title |-> JUndef]

\* valsRaw.map((row) => (Array.isArray(row) ? row.map((v) => Number(v || 0)) : []))
HeatValues(values) ==
  IF values.t # "arr" THEN <<>>
  ELSE [r \in 1..Len(values.v) |->
          IF values.v[r].t = "arr"
          THEN [c \in 1..Len(values.v[r].v) |-> ToNumber(JOr(values.v[r].v[c], JNum(0)))]
          ELSE <<>>]

\* Array.isArray(labels) ? labels.map(String) : []
HeatLabels(labels) ==
  IF labels.t = "arr" THEN [i \in 1..Len(labels.v) |-> ToStringJS(labels.v[i])] ELSE <<>>

\* min (or max) as parseHeatmap leaves it: given is json.min, other json.max,
\* derived the Math.min of the flattened values
HeatBound(given, other, flat, derived) ==
  IF (~Truthy(given) \/ ~Truthy(other)) /\ flat # <<>> THEN derived
  ELSE IF given.t = "num" THEN given ELSE JNum(0)

HeatMatrix(json, vals) ==
  [x_labels |-> HeatLabels(Get(json, K_x_labels)),
   y_labels |-> HeatLabels(Get(json, K_y_labels)),
   values |-> vals,
   min |-> HeatBound(Get(json, K_min), Get(json, K_max), Flat(vals), MathMin(Flat(vals))),
   max |-> HeatBound(Get(json, K_max), Get(json, K_min), Flat(vals), MathMax(Flat(vals))),
   title |-> IF Get(json, K_title).t = "str" THEN Get(json, K_title) ELSE JUndef]

\* parseHeatmap without its guard on json
parseHeatmapUnguarded(json) ==
  IF IsNullish(json) THEN Throw("Cannot read properties of null (reading 'x_labels')")
  ELSE Ok(HeatMatrix(json, HeatValues(Get(json, K_values))))

parseHeatmap(json) ==
  IF ~Truthy(json) \/ Truthy(Get(json, K_error)) THEN Ok(EmptyHeatMatrix)
  ELSE Ok(HeatMatrix(json, HeatValues(Get(json, K_values))))

(***************************************************************************)
(* Resource slots (ApiState<T>): {loading, error, data}.                   *)
(***************************************************************************)
Null == [t |-> "null", v |-> 0]
Some(x) == [t |-> "some", v |-> x]

\* the 17 chart slots, in the order of the Promise.all array
ChartSlots ==
  <<"entriesByCategory", "incidentHazardTypes", "monthlyTrends", "entriesByLocation",
    "stackedEntriesByLocation", "typesByLocation", "proportionByLocation",
    "statusByLocation", "heatmap", "incidentsTypes", "incidentsTopLocations",
    "hazardsMonthly", "hazardsByLocation", "hazardsByRisk", "hazardsByArea",
    "hazardsHeatmap", "hazVsIncByDept">>

ChartSlotSet == {ChartSlots[i] : i \in 1..Len(ChartSlots)}

AllSlots == ChartSlotSet \cup {"kpis"}

\* the position of a chart slot's request in the Promise.all array
SlotIndex(s) == CHOOSE i \in 1..Len(ChartSlots) : ChartSlots[i] = s

\* useState initial value of every slot
InitialSlot == [loading |-> TRUE, error |-> Null, data |-> Null]

\* the normalizer refreshAll applies to the response of each chart slot
Normalizer(s) ==
  CASE s \in {"monthlyTrends", "hazardsMonthly"} -> "trend"
    [] s \in {"stackedEntriesByLocation", "typesByLocation", "statusByLocation",
              "hazVsIncByDept"} -> "stacked"
    [] s \in {"heatmap", "hazardsHeatmap"} -> "heat"
    [] OTHER -> "category"

Normalize(s, json) ==
  CASE Normalizer(s) = "trend" -> parseMonthlyTrends(json)
    [] Normalizer(s) = "stacked" -> parseStackedChart(json)
    [] Normalizer(s) = "heat" -> parseHeatmap(json)
    [] OTHER -> parseCategoryChart(json)

(***************************************************************************)
(* fetchJSON.  A response is what the network delivers for one request.    *)
(***************************************************************************)
\* fetch itself rejects (network failure) with an error carrying message m
NetworkFailure(m) == [kind |-> "network", message |-> m]
\* a response arrives: ok is res.ok, status its status line, text the body
\* text, json the parsed body (Null when the body is not JSON)
HttpResponse(ok, status, text, json) ==
  [kind |-> "http", ok |-> ok, status |-> status, text |-> text, json |-> json]

Fulfilled(x) == [state |-> "fulfilled", value |-> x]
Rejected(m) == [state |-> "rejected", message |-> m]

fetchJSON(res) ==
  IF res.kind = "network" THEN Rejected(res.message)
  ELSE IF ~res.ok
       THEN Rejected(IF res.text # "" THEN res.text
                     ELSE "Request failed: " \o res.status)
       ELSE IF res.json = Null THEN Rejected("Unexpected token < in JSON at position 0")
            ELSE Fulfilled(res.json.v)

(***************************************************************************)
(* Payloads the backend may return on a 2xx response.  A payload shape     *)
(* names the documents of one refresh cycle; the request position i makes  *)
(* the documents of different resources differ.                            *)
(***************************************************************************)
S_Incidents == <<"I","n","c","i","d","e","n","t","s">>
S_HAZARDS == <<"H","A","Z","A","R","D","S">>
S_A == <<"A">>
S_B == <<"B">>
S_n == <<"n">>
S_x == <<"x">>

Field(k, x) == [q \in {k} |-> x]

\* {labels: [...], datasets: [{label: "n", data: [...]}]}
ChartDoc(labels, data) ==
  JObj(Field(K_labels, JArr(labels))
       @@ Field(K_datasets,
                JArr(<<JObj(Field(K_label, JStr(S_n)) @@ Field(K_data, JArr(data)))>>)))

\* {x_labels: [...], y_labels: [...], values: [[...]]}
HeatDoc(xs, ys, values) ==
  JObj(Field(K_x_labels, JArr(xs)) @@ Field(K_y_labels, JArr(ys))
       @@ Field(K_values, JArr(values)))

PayloadShapes == {"full", "zero", "error", "null", "badLabels", "numLabel"}

\* The document of request i (1..17) in a cycle whose payloads have shape p.
\* Request 1 is /chart/entries-by-category, whose labels are entry categories.
Document(p, i) ==
     CASE p = "full" ->
            IF Normalizer(ChartSlots[i]) = "heat"
            THEN HeatDoc(<<JStr(S_A), JStr(S_B)>>, <<JStr(S_x)>>,
                         <<JArr(<<JNum(i), JNum(2)>>)>>)
            ELSE IF i = 1
                 THEN ChartDoc(<<JStr(S_Incidents), JStr(S_HAZARDS), JStr(S_A)>>,
                               <<JNum(4), JNum(2)>>)
                 ELSE ChartDoc(<<JStr(S_A), JStr(S_B)>>, <<JNum(i)>>)
       [] p = "zero" ->
            IF Normalizer(ChartSlots[i]) = "heat"
            THEN HeatDoc(<<JStr(S_A)>>, <<JStr(S_x)>>, <<JArr(<<JNum(0)>>)>>)
            ELSE ChartDoc(<<JStr(S_A)>>, <<JNum(0)>>)
       [] p = "error" -> JObj(Field(K_error, JStr(S_x)))
       [] p = "null" -> JNull
       [] p = "badLabels" -> JObj(Field(K_labels, JNum(5)))
       [] OTHER -> \* "numLabel": a label that is a number, not a string
            IF Normalizer(ChartSlots[i]) = "heat"
            THEN HeatDoc(<<JNum(7)>>, <<JStr(S_x)>>, <<JArr(<<JNum(1)>>)>>)
            ELSE ChartDoc(<<JNum(7), JStr(S_Incidents)>>, <<JNum(1), JNum(i)>>)

\* how many requests of a cycle have fulfilled when one rejects: none, or
\* all the others
RejectPoints == {0, Len(ChartSlots) - 1}

\* responses that make fetchJSON reject
FailingResponses ==
  { NetworkFailure(""),
    HttpResponse(FALSE, "503", "", Null),
    HttpResponse(FALSE, "500", "database unavailable", Null),
    HttpResponse(TRUE, "200", "<html>", Null) }

(***************************************************************************)
(* refreshAll.                                                             *)
(***************************************************************************)
NumRequests == Len(ChartSlots)

\* slots refreshAll puts in the loading state before it issues the requests
ResetSlots ==
  {"kpis", "entriesByCategory", "incidentHazardTypes", "monthlyTrends",
   "entriesByLocation", "stackedEntriesByLocation", "typesByLocation",
   "proportionByLocation", "statusByLocation", "heatmap", "incidentsTypes",
   "incidentsTopLocations", "hazardsMonthly", "hazardsByLocation"}

\* setX((s) => ({ ...s, loading: true, error: null })) for the reset slots
MarkLoading(sl) ==
  [s \in AllSlots |->
     IF s \in ResetSlots THEN [sl[s] EXCEPT !.loading = TRUE, !.error = Null]
     ELSE sl[s]]

\* Promise.all over the requests settled so far (in settlement order):
\* rejected with the first rejection, fulfilled when all have fulfilled
PromiseAll(settled) ==
  IF \E k \in 1..Len(settled) : settled[k].state = "rejected"
  THEN Rejected(settled[CHOOSE k \in 1..Len(settled) :
                          /\ settled[k].state = "rejected"
                          /\ \A q \in 1..(k - 1) : settled[q].state # "rejected"].message)
  ELSE IF Len(settled) = NumRequests
       THEN Fulfilled([k \in 1..NumRequests |-> settled[k].value])
       ELSE [state |-> "pending"]

KpiLabels ==
  << <<"I","n","c","i","d","e","n","t","s">>, <<"H","a","z","a","r","d","s">>,
     <<"A","u","d","i","t","s">>, <<"I","n","s","p","e","c","t","i","o","n","s">> >>

KpiNames ==
  << <<"i","n","c","i","d","e","n","t","s">>, <<"h","a","z","a","r","d","s">>,
     <<"a","u","d","i","t","s">>, <<"i","n","s","p","e","c","t","i","o","n","s">> >>

\* a lookup that compares the names as they are written
RECURSIVE KpiTotalCaseSensitive(_, _)
KpiTotalCaseSensitive(byCat, name) ==
  IF byCat = <<>> THEN Ok(JNum(0))
  ELSE IF Head(byCat).name = JStr(name) THEN Ok(JOr(Head(byCat).value, JNum(0)))
  ELSE KpiTotalCaseSensitive(Tail(byCat), name)

\* byCat?.find((d) => d.name?.toLowerCase() === name)?.value || 0
RECURSIVE KpiTotal(_, _)
KpiTotal(byCat, name) ==
  IF byCat = <<>> THEN Ok(JNum(0))
  ELSE LET d == Head(byCat)
       IN IF IsNullish(d.name) THEN KpiTotal(Tail(byCat), name)
          ELSE IF d.name.t # "str" THEN Throw("d.name?.toLowerCase is not a function")
          ELSE IF ToLowerCase(d.name.v) = name THEN Ok(JOr(d.value, JNum(0)))
          ELSE KpiTotal(Tail(byCat), name)

\* { label, value: total, delta: null }
KpiEntry(label, total) ==
  IF total.ok THEN Ok([label |-> label, value |-> total.val, delta |-> Null]) ELSE total

\* the KPI list composed from the entries-by-category series
ComposeKpis(byCat) ==
  MapResult([k \in 1..Len(KpiLabels) |-> KpiEntry(KpiLabels[k], KpiTotal(byCat, KpiNames[k]))])

\* setX({ loading: false, error: null, data }) for the 17 chart slots
CommitCharts(sl, parsed) ==
  [s \in AllSlots |->
     IF s \in ChartSlotSet
     THEN [loading |-> FALSE, error |-> Null, data |-> Some(parsed[SlotIndex(s)])]
     ELSE sl[s]]

\* setKpis({ loading: false, error: null, data: kpiData })
CommitKpis(sl, kpiData) ==
  [sl EXCEPT !["kpis"] = [loading |-> FALSE, error |-> Null, data |-> Some(kpiData)]]

\* e?.message || "Failed to load charts"
ErrorMessage(message) == IF message # "" THEN message ELSE "Failed to load charts"

\* a catch branch that sets the error on the slots of the loading reset only
CommitFailureOnResetSlots(sl, msg) ==
  [s \in AllSlots |->
     IF s \in ResetSlots THEN [sl[s] EXCEPT !.loading = FALSE, !.error = Some(msg)]
     ELSE [sl[s] EXCEPT !.loading = FALSE]]

\* setX((s) => ({ ...s, loading: false, error: msg })) for all 18 slots
CommitFailure(sl, msg) ==
  [s \in AllSlots |-> [sl[s] EXCEPT !.loading = FALSE, !.error = Some(msg)]]

\* the try block from the KPI composition on: charts are the slots after the
\* 17 chart commits
TryKpis(charts, updated, kpiData, time) ==
  IF ~kpiData.ok
  THEN [slots |-> charts, lastUpdated |-> updated, thrown |-> Some(kpiData.msg)]
  ELSE [slots |-> CommitKpis(charts, kpiData.val), lastUpdated |-> time, thrown |-> Null]

\* the try block from the normalizer calls on: parsed is the array of their outcomes
TryParsed(sl, updated, parsed, time) ==
  IF ~parsed.ok
  THEN [slots |-> sl, lastUpdated |-> updated, thrown |-> Some(parsed.msg)]
  ELSE TryKpis(CommitCharts(sl, parsed.val), updated, ComposeKpis(parsed.val[1]), time)

\* The try block after the batched wait has fulfilled with the documents
\* docs: the slots and timestamp it leaves, and the error it throws (if any).
TryBlock(sl, updated, docs, time) ==
  TryParsed(sl, updated,
            MapResult([k \in 1..NumRequests |-> Normalize(ChartSlots[k], docs[k])]), time)

\* an end of refreshAll whose catch branch emits no toast
FinishWithoutToast(try) ==
  IF try.thrown = Null
  THEN [slots |-> try.slots, lastUpdated |-> try.lastUpdated, toast |-> Null]
  ELSE [slots |-> CommitFailure(try.slots, ErrorMessage(try.thrown.v)),
        lastUpdated |-> try.lastUpdated, toast |-> Null]

\* the end of refreshAll: try is what the try block left; toast is the
\* description of the toast.error("Error loading data") call, if it is made
Finish(try) ==
  IF try.thrown = Null
  THEN [slots |-> try.slots, lastUpdated |-> try.lastUpdated, toast |-> Null]
  ELSE [slots |-> CommitFailure(try.slots, ErrorMessage(try.thrown.v)),
        lastUpdated |-> try.lastUpdated,
        toast |-> Some(ErrorMessage(try.thrown.v))]

\* refreshAll from the point where the batched wait settles with `batch`:
\* the slots and timestamp it leaves and the toast it emits
Continuation(sl, updated, batch, time) ==
  IF batch.state = "fulfilled"
  THEN Finish(TryBlock(sl, updated, batch.value, time))
  ELSE Finish([slots |-> sl, lastUpdated |-> updated, thrown |-> Some(batch.message)])

\* useEffect on entriesByCategory.data: data with a positive value marks the
\* dataset as present
DataPresent(sl) ==
  /\ sl["entriesByCategory"].data # Null
  /\ \E k \in 1..Len(sl["entriesByCategory"].data.v) :
        /\ sl["entriesByCategory"].data.v[k].value.t = "num"
        /\ sl["entriesByCategory"].data.v[k].value.v > 0

(***************************************************************************)
(* onFiles inputs.                                                         *)
(***************************************************************************)
F_a_xlsx == <<"a",".","x","l","s","x">>
F_b_xls == <<"b",".","x","l","s">>
F_C_XLSX == <<"C",".","X","L","S","X">>
F_d_csv == <<"d",".","c","s","v">>
F_xlsx == <<"x","l","s","x">>
F_e_xls_txt == <<"e",".","x","l","s",".","t","x","t">>

FileNames == {F_a_xlsx, F_b_xls, F_C_XLSX, F_d_csv, F_xlsx, F_e_xls_txt}

\* a FileList: no file, one file, or two files (onFiles reads the first)
FileLists ==
  {<<>>} \cup {<<n>> : n \in FileNames} \cup {<<F_d_csv, F_a_xlsx>>, <<F_b_xls, F_d_csv>>}

\* an extension check on the name as typed: name.endsWith(".xlsx") || name.endsWith(".xls")
IsExcelNameAsTyped(name) ==
  EndsWith(name, <<".","x","l","s","x">>) \/ EndsWith(name, <<".","x","l","s">>)

\* lower.endsWith(".xlsx") || lower.endsWith(".xls")
IsExcelName(name) ==
  LET lower == ToLowerCase(name)
  IN EndsWith(lower, <<".","x","l","s","x">>) \/ EndsWith(lower, <<".","x","l","s">>)

\* what the POST to /upload-excel may deliver
UploadResponses ==
  { NetworkFailure("Failed to fetch"), NetworkFailure(""),
    HttpResponse(TRUE, "200", "", Null), HttpResponse(FALSE, "400", "", Null) }

\* the body text of a non-2xx upload response ("" also when reading it fails)
UploadErrorTexts == {"", "Sheet 'Incidents' not found"}

(***************************************************************************)
(* Notifications.                                                          *)
(***************************************************************************)
T_LoadError == "Error loading data"
T_InvalidFile == "Invalid file type"
T_UploadFailed == "Upload failed"
T_UploadComplete == "Upload complete"

ToastTitles == {T_LoadError, T_InvalidFile, T_UploadFailed, T_UploadComplete}

D_InvalidFile == "Please upload an Excel file (.xlsx or .xls)."
D_UploadComplete == "Your Excel data has been processed."

(***************************************************************************)
(* Chat stream decoding (client/src/components/chat/ChatWidget.tsx).       *)
(* The stream text and the read buffer are sequences of characters; the    *)
(* accumulated and displayed texts are sequences of text fragments (the    *)
(* characters of decoded contents, and whole annotations).                 *)
(***************************************************************************)
WhiteSpace == {" ", "\t", "\r", "\n"}

\* String.prototype.trim
RECURSIVE TrimStart(_)
TrimStart(s) ==
  IF s # <<>> /\ Head(s) \in WhiteSpace THEN TrimStart(Tail(s)) ELSE s

RECURSIVE TrimEnd(_)
TrimEnd(s) ==
  IF s # <<>> /\ s[Len(s)] \in WhiteSpace THEN TrimEnd(SubSeq(s, 1, Len(s) - 1)) ELSE s

Trim(s) == TrimEnd(TrimStart(s))

\* String.prototype.startsWith
StartsWith(s, prefix) ==
  /\ Len(s) >= Len(prefix)
  /\ SubSeq(s, 1, Len(prefix)) = prefix

\* buffer.indexOf("\n"), counted from 1; 0 for -1
IndexOfNewline(buffer) ==
  IF \E k \in 1..Len(buffer) : buffer[k] = "\n"
  THEN CHOOSE k \in 1..Len(buffer) :
         buffer[k] = "\n" /\ \A q \in 1..(k - 1) : buffer[q] # "\n"
  ELSE 0

P_data == <<"d","a","t","a",":">>
P_DONE == <<"[","D","O","N","E","]">>
P_ab == <<"{","\"","c","o","n","t","e","n","t","\"",":","\"","a","b","\"","}">>
P_c == <<"{","\"","c","o","n","t","e","n","t","\"",":","\"","c","\"","}">>
P_5 == <<"{","\"","c","o","n","t","e","n","t","\"",":","5","}">>
P_empty == <<"{","\"","c","o","n","t","e","n","t","\"",":","\"","\"","}">>
P_null == <<"n","u","l","l">>
P_notjson == <<"n","o","t","-","j","s","o","n">>
P_ping == <<"e","v","e","n","t",":"," ","p","i","n","g">>

\* JSON.parse on the payloads the streams of the model carry: the JSON texts
\* among them give their values, every other payload a SyntaxError
JSONParse(payload) ==
  IF payload = P_ab THEN Ok(JObj(Field(K_content, JStr(<<"a","b">>))))
  ELSE IF payload = P_c THEN Ok(JObj(Field(K_content, JStr(<<"c">>))))
  ELSE IF payload = P_5 THEN Ok(JObj(Field(K_content, JNum(5))))
  ELSE IF payload = P_empty THEN Ok(JObj(Field(K_content, JStr(<<>>))))
  ELSE IF payload = P_null THEN Ok(JNull)
  ELSE Throw("Unexpected token in JSON")

\* typeof obj?.content === "string" ? obj.content : ""
PieceOf(parsed) ==
  IF ~parsed.ok THEN parsed
  ELSE IF OptGet(parsed.val, K_content).t = "str"
       THEN Ok(OptGet(parsed.val, K_content).v)
       ELSE Ok(<<>>)

\* a parse without the try / catch: the error leaves the loop
RethrowFrame(piece) == piece

\* try { ... } catch {} around the parse: an error leaves nothing to append
CatchFrame(piece) == IF piece.ok THEN piece ELSE Ok(<<>>)

\* the state of the read loop: the pending buffer, the accumulated text,
\* whether scheduleFlush was called, whether the [DONE] line was met in this
\* call, and the error thrown out of the loop (none, with the catch above)
LoopState(buffer, textAccum, flush, sawDone, thrown) ==
  [buffer |-> buffer, textAccum |-> textAccum, flush |-> flush, sawDone |-> sawDone,
   thrown |-> thrown]

\* if (piece) { textAccum += piece; scheduleFlush() }
RECURSIVE ProcessLines(_, _, _)
AppendPiece(rest, textAccum, flush, piece) ==
  IF ~piece.ok THEN LoopState(rest, textAccum, flush, FALSE, Some(piece.msg))
  ELSE ProcessLines(rest, textAccum \o piece.val, flush \/ piece.val # <<>>)

\* the body of the line loop for one trimmed line; rest is the buffer after it
ProcessLine(line, rest, textAccum, flush) ==
  IF ~StartsWith(line, P_data) THEN ProcessLines(rest, textAccum, flush)
  ELSE IF Trim(SubSeq(line, 6, Len(line))) = P_DONE
       THEN LoopState(rest, textAccum, flush, TRUE, Null)
       ELSE AppendPiece(rest, textAccum, flush,
                        CatchFrame(PieceOf(JSONParse(Trim(SubSeq(line, 6, Len(line)))))))

\* while (nl !== -1) { line = buffer.slice(0, nl).trim(); buffer = buffer.slice(nl + 1); ... }
SplitAt(buffer, nl, textAccum, flush) ==
  IF nl = 0 THEN LoopState(buffer, textAccum, flush, FALSE, Null)
  ELSE ProcessLine(Trim(SubSeq(buffer, 1, nl - 1)), SubSeq(buffer, nl + 1, Len(buffer)),
                   textAccum, flush)

ProcessLines(buffer, textAccum, flush) ==
  SplitAt(buffer, IndexOfNewline(buffer), textAccum, flush)

\* buffer += decoder.decode(value, { stream: true }), then the line loop
FeedChunk(buffer, textAccum, chunk) == ProcessLines(buffer \o chunk, textAccum, FALSE)

\* the lines a stream is made of
NL == <<"\n">>
Line(payload) == P_data \o <<" ">> \o payload \o NL
LineCRLF(payload) == <<" ">> \o P_data \o payload \o <<" ", "\r">> \o NL

\* a stream with a line whose payload is not JSON, and the same stream
\* without that line
MalformedStream == Line(P_ab) \o Line(P_notjson) \o Line(P_c)
WellFormedStream == Line(P_ab) \o Line(P_c)

\* stream texts: the last line may lack its newline
StreamTexts ==
  { WellFormedStream,
    MalformedStream,
    LineCRLF(P_ab) \o P_ping \o NL \o NL \o Line(P_5) \o Line(P_c),
    Line(P_null) \o Line(P_empty) \o Line(P_ab) \o P_data \o P_c,
    Line(P_ab) \o Line(P_DONE) \o Line(P_c),
    Line(P_c) \o Line(P_DONE) }

(***************************************************************************)
(* State.                                                                  *)
(***************************************************************************)
VARIABLES
  slots,        \* the 18 ApiState slots
  lastUpdated,  \* time of the last successful refresh, 0 for null
  hasUploaded,  \* the data-present flag
  uploading,    \* the uploading flag
  cycles,       \* the refreshAll calls: cycles[c] for c in 1..nCycles
  nCycles,      \* refreshAll calls made so far
  uploads,      \* the onFiles calls that reached the POST: uploads[u] for u in 1..nUploads
  nUploads,     \* onFiles calls that reached the POST so far
  nCalls,       \* Refresh clicks and file selections so far
  toasts,       \* toasts[title]: toasts emitted so far with that title
  notice,       \* the latest toast
  clock,        \* the time new Date() returns
  settled,      \* how the batched wait that settled last settled
  overlapped    \* a refreshAll call was made while another was in flight

\* the dashboard's variables
dashVars == <<slots, lastUpdated, hasUploaded, uploading, cycles, nCycles, uploads,
              nUploads, nCalls, toasts, notice, clock, settled, overlapped>>

VARIABLES
  feed,         \* a read loop of sendQuestion fed a stream text chunk by chunk
  chatOpen,     \* the chat widget is open
  messages,     \* the chat messages
  chatLoading,  \* the chat widget's loading flag
  turns,        \* the sendQuestion calls that passed the guard
  nTurns,       \* their number
  cardOpen,     \* the insights dialog of a chart card is open
  insights,     \* its text
  cardLoading,  \* its loading flag
  sessions,     \* its fetchInsights calls
  nOpens,       \* their number; controllerRef.current is the last one's
  norm          \* a JSON document and the normalizer applied to it

\* the chat widget's variables
chatVars == <<chatOpen, messages, chatLoading, turns, nTurns>>

\* the variables of the chat widget and the insights dialogs
\* the variables of the insights dialog
cardVars == <<cardOpen, insights, cardLoading, sessions, nOpens>>

streamVars == <<feed, chatVars, cardVars>>

vars == <<dashVars, streamVars, norm>>

Cycles == 1..(MaxCalls + 1)
Uploads == 1..MaxCalls

\* pc: "idle" (not called), "waiting" (at the batched wait), "done";
\* outstanding: requests of the call not settled yet; by: the onFiles call
\* awaiting this refreshAll call, 0 if none
IdleCycle == [pc |-> "idle", outstanding |-> FALSE, by |-> 0]

\* pc: "idle", "posting" (awaiting the POST), "text" (awaiting res.text()),
\* "refreshing" (awaiting refreshAll), "done"
IdleUpload == [pc |-> "idle"]

NoNotice == [title |-> "", description |-> ""]

\* state: "none", "fulfilled" or "rejected"; shape: the shape of the documents
\* a fulfilled wait delivered; message: the message of the rejection
NotSettled == [state |-> "none", shape |-> "", message |-> ""]

\* state: "idle", "reading", "ended" (the reader reported done) or "failed"
\* (an error left the loop); text: the stream text; pos: the characters of it
\* delivered so far; buffer, textAccum: the loop's variables; sawDone: a
\* [DONE] line was met
IdleFeed == [state |-> "idle", text |-> <<>>, pos |-> 0, buffer |-> <<>>,
             textAccum |-> <<>>, sawDone |-> FALSE]


DashInit ==
  /\ slots = [s \in AllSlots |-> InitialSlot]
  /\ lastUpdated = 0
  /\ hasUploaded = FALSE
  /\ uploading = FALSE
  /\ cycles = [c \in Cycles |-> IdleCycle]
  /\ nCycles = 0
  /\ uploads = [u \in Uploads |-> IdleUpload]
  /\ nUploads = 0
  /\ nCalls = 0
  /\ toasts = [t \in ToastTitles |-> 0]
  /\ notice = NoNotice
  /\ clock = 1
  /\ settled = NotSettled
  /\ overlapped = FALSE


\* toast.error(title, { description }) / toast.success(title, { description })
Toast(title, description) ==
  /\ toasts' = [toasts EXCEPT ![title] = @ + 1]
  /\ notice' = [title |-> title, description |-> description]

(***************************************************************************)
(* The chat widget (ChatWidget.tsx): sendQuestion, the flush callbacks     *)
(* given to requestAnimationFrame, and opening and closing the widget.     *)
(***************************************************************************)
Turns == 1..MaxTurns

\* the greeting message, and the ids sendQuestion gives its two messages
GreetingId == <<"m", 0>>
UserId(t) == <<"u", t>>
AssistantId(t) == <<"a", t>>

Greeting == [id |-> GreetingId, role |-> "assistant", content |-> <<"Hi!">>]

\* the scripts of a chat response body: the chunks reader.read() delivers
ChatScripts ==
  { <<Line(P_ab), Line(P_c)>>,
    <<Line(P_ab) \o Line(P_DONE), Line(P_c)>>,
    <<Line(P_notjson)>> }

\* what the POST to /chat/stream may deliver: a network failure, a non-2xx
\* response, a 2xx response without a body, a 2xx response with a body
StreamResponse(ok, status, body) ==
  [kind |-> "http", ok |-> ok, status |-> status, body |-> body]

ChatResponses ==
  { NetworkFailure("Failed to fetch"),
    StreamResponse(FALSE, "500", Null),
    StreamResponse(TRUE, "200", Null) }
  \cup { StreamResponse(TRUE, "200", Some(script)) : script \in ChatScripts }

\* the texts res.text() may deliver ("" also when reading it fails, for the
\* non-2xx response)
ChatBodyTexts == {<<>>, <<"o", "k">>}
ChatErrorTexts == {"", "model unavailable"}

\* the messages of errors a pending reader.read() may reject with
ReadErrors == {"network error", ""}

\* pc: "idle", "fetching" (awaiting fetch), "errtext" (awaiting res.text() of
\* a non-2xx response), "bodytext" (awaiting res.text(), no reader),
\* "reading" (awaiting reader.read()), "done", "failed" (the catch block ran);
\* scheduled, textAccum, buffer: the call's local variables; chunks: the
\* chunks the body has still to deliver; status: res.status; aborted: the
\* transport was signalled to abort; commits: setMessages calls of the turn
\* since the last display frame; sawDone: a [DONE] line was decoded.
\* A call that has returned keeps textAccum and scheduled, which its flush
\* callback reads; its buffer, and the rest of its response, are dropped.
IdleTurn ==
  [pc |-> "idle", textAccum |-> <<>>, buffer |-> <<>>, scheduled |-> FALSE,
   chunks |-> <<>>, status |-> "", aborted |-> FALSE, commits |-> 0,
   sawDone |-> FALSE]

ChatInFlight == {"fetching", "errtext", "bodytext", "reading"}

ChatInit ==
  /\ chatOpen = FALSE
  /\ messages = <<Greeting>>
  /\ chatLoading = FALSE
  /\ turns = [t \in Turns |-> IdleTurn]
  /\ nTurns = 0

(***************************************************************************)
(* The insights dialog of one chart card (ChartCard in                      *)
(* SafetyDashboard.tsx): fetchInsights and the effect on `open`.           *)
(***************************************************************************)
Opens == 1..MaxOpens

\* the chunks of an insights response body, as reader.read() delivers them
InsightScripts == { <<"Top ", "risks">>, <<>> }

\* what the POST to /chart/insights/stream may deliver
InsightResponses ==
  { NetworkFailure("Failed to fetch"),
    StreamResponse(FALSE, "500", Null),
    StreamResponse(TRUE, "200", Null) }
  \cup { StreamResponse(TRUE, "200", Some(script)) : script \in InsightScripts }

InsightErrorTexts == {"", "no data for chart"}

\* the message of the AbortError a fetch or a read rejects with on abort()
AbortMessage == "signal is aborted without reason"

\* one fetchInsights call; pc: "idle", "fetching", "errtext", "reading",
\* "done", "failed"; acc: its local accumulator; chunks: the chunks the body
\* has still to deliver; status: res.status; aborted: abort() was called on
\* its controller while it was in flight. The rest of the response of a
\* call that has returned is dropped.
IdleSession ==
  [pc |-> "idle", acc |-> <<>>, chunks |-> <<>>, status |-> "", aborted |-> FALSE]

InsightsInFlight == {"fetching", "errtext", "reading"}

CardInit ==
  /\ cardOpen = FALSE
  /\ insights = <<>>
  /\ cardLoading = FALSE
  /\ sessions = [k \in Opens |-> IdleSession]
  /\ nOpens = 0

StreamInit == feed = IdleFeed /\ ChatInit /\ CardInit

(***************************************************************************)
(* The normalizers on their own: a JSON document is drawn from a bounded   *)
(* set and one of the four normalizers is applied to it.                   *)
(***************************************************************************)
\* values a property of a response may hold when it is not the array the
\* normalizers expect
WrongTypes == {JNum(5), JStr(S_x), JBool(TRUE), JObj(EmptyObj)}

\* the values of labels, x_labels and y_labels; JUndef is a missing property
LabelValues ==
  {JUndef, JNull, JArr(<<>>), JArr(<<JStr(S_A), JStr(S_B)>>), JArr(<<JNum(7), JNull>>)}
  \cup WrongTypes

\* the values of datasets
DatasetValues ==
  {JUndef, JArr(<<>>),
   JArr(<<JObj(Field(K_label, JStr(S_n)) @@ Field(K_data, JArr(<<JNum(4), JNum(2)>>)))>>),
   JArr(<<JObj(Field(K_label, JNum(7)) @@ Field(K_data, JStr(S_x)))>>),
   JArr(<<JObj(Field(K_data, JArr(<<JStr(S_x), JNull>>)))>>),
   JArr(<<JNull>>), JArr(<<JNum(5)>>)}
  \cup WrongTypes

\* the values of values
MatrixValues ==
  {JUndef, JArr(<<>>), JArr(<<JArr(<<JNum(1), JNum(2)>>)>>),
   JArr(<<JNum(3), JArr(<<JStr(S_x), JNull>>)>>), JNum(5), JStr(S_x)}

\* an object with the properties of fields that are present
ObjectOf(fields) ==
  JObj([k \in {q \in DOMAIN fields : fields[q] # JUndef} |-> fields[k]])

\* the values of min and max
BoundValues == {JUndef, JNum(0), JNum(1), JNum(9), JStr(S_x)}

\* heat matrices of two rows and two columns, or of none, with min and max
HeatBoundsDocs ==
  { ObjectOf(Field(K_x_labels, JArr(<<JStr(S_A), JStr(S_B)>>))
             @@ Field(K_y_labels, JArr(<<JStr(S_x), JStr(S_A)>>))
             @@ Field(K_values, v) @@ Field(K_min, lo) @@ Field(K_max, hi)) :
      v \in {JArr(<<>>), JArr(<<JArr(<<JNum(1), JNum(2)>>), JArr(<<JNum(3), JNum(4)>>)>>)},
      lo \in BoundValues, hi \in BoundValues }

S_audits == <<"a","u","d","i","t","s">>
S_INSPECTIONS == <<"I","N","S","P","E","C","T","I","O","N","S">>

\* category series as the backend sends them: labels that are strings and
\* counts
CategoryDocs ==
  { ChartDoc(labels, data) :
      labels \in { <<JStr(S_Incidents), JStr(S_HAZARDS), JStr(S_A)>>,
                   <<JStr(S_A), JStr(S_B)>>,
                   <<JStr(S_HAZARDS), JStr(S_Incidents), JStr(S_Incidents)>>,
                   <<JStr(S_audits), JStr(S_INSPECTIONS)>> },
      data \in { <<JNum(4), JNum(2)>>, <<JNum(0), JNum(7), JNum(3)>>, <<>> } }

NormalizerDocs ==
  {JNull, JUndef, JNum(5), JStr(S_x), JArr(<<>>), JObj(Field(K_error, JStr(S_x)))}
  \cup HeatBoundsDocs
  \cup CategoryDocs
  \cup { ObjectOf(Field(K_labels, l) @@ Field(K_datasets, d)) :
           l \in LabelValues, d \in DatasetValues }
  \cup { ObjectOf(Field(K_x_labels, l) @@ Field(K_y_labels, JArr(<<JStr(S_x)>>))
                  @@ Field(K_values, v)) :
           l \in LabelValues, v \in MatrixValues }

\* no normalizer applied yet to the document
Unparsed(doc) == [doc |-> doc, by |-> "", result |-> Ok(<<>>)]

NormInit == norm = Unparsed(JNull)


Init == DashInit /\ StreamInit /\ NormInit

(***************************************************************************)
(* refreshAll, first part: reset the slots and issue the requests.         *)
(***************************************************************************)
RefreshStart(by) ==
  /\ nCycles' = nCycles + 1
  /\ slots' = MarkLoading(slots)
  /\ cycles' = [cycles EXCEPT ![nCycles + 1] =
                  [pc |-> "waiting", outstanding |-> TRUE, by |-> by]]
  /\ overlapped' = (overlapped \/ \E c \in Cycles : cycles[c].pc = "waiting")
  /\ UNCHANGED settled

\* useEffect(() => { refreshAll() }, [refreshAll]) after the first render
Mount ==
  /\ nCycles = 0
  /\ RefreshStart(0)
  /\ UNCHANGED <<lastUpdated, hasUploaded, uploading, uploads, nUploads, nCalls,
                 toasts, notice, clock>>
  /\ UNCHANGED <<streamVars, norm>>

\* the Refresh button
ClickRefresh ==
  /\ nCycles > 0
  /\ nCalls < MaxCalls
  /\ nCalls' = nCalls + 1
  /\ RefreshStart(0)
  /\ UNCHANGED <<lastUpdated, hasUploaded, uploading, uploads, nUploads, toasts,
                 notice, clock>>
  /\ UNCHANGED <<streamVars, norm>>

(***************************************************************************)
(* refreshAll, second part: the batched wait of call c settles with batch  *)
(* and the rest of refreshAll runs; then the onFiles call awaiting it (if  *)
(* any) runs to its end: setHasUploaded(true), finally setUploading(false).*)
(***************************************************************************)
\* onFiles after `await refreshAll()`
UploadResume(u) ==
  /\ uploads' = [uploads EXCEPT ![u].pc = "done"]
  /\ uploading' = FALSE

\* call c ends as `end` describes; pending: some of its requests are not settled
RefreshEnd(c, end, pending) ==
  /\ cycles[c].pc = "waiting"
  /\ slots' = end.slots
  /\ lastUpdated' = end.lastUpdated
  /\ clock' = clock + 1
  /\ cycles' = [cycles EXCEPT ![c] = [pc |-> "done", outstanding |-> pending, by |-> 0]]
  /\ IF end.toast # Null
     THEN Toast(T_LoadError, end.toast.v)
     ELSE UNCHANGED <<toasts, notice>>
  /\ IF cycles[c].by # 0
     THEN UploadResume(cycles[c].by) /\ hasUploaded' = TRUE
     ELSE /\ hasUploaded' = (hasUploaded \/ DataPresent(end.slots))
          /\ UNCHANGED <<uploads, uploading>>
  /\ UNCHANGED <<nCycles, nUploads, nCalls, overlapped>>
  /\ UNCHANGED <<streamVars, norm>>

RefreshSettle(c, batch, pending, shape) ==
  /\ RefreshEnd(c, Continuation(slots, lastUpdated, batch, clock), pending)
  /\ settled' = [state |-> batch.state, shape |-> shape,
                 message |-> IF batch.state = "rejected" THEN batch.message ELSE ""]

\* every request of call c fulfils; the payloads have shape p
AllFulfil(c, p) ==
  RefreshSettle(c,
                PromiseAll([k \in 1..NumRequests |->
                              fetchJSON(HttpResponse(TRUE, "200", "", Some(Document(p, k))))]),
                FALSE, p)

\* after n requests of call c have fulfilled, one rejects: its response is res
OneRejects(c, n, res) ==
  RefreshSettle(c,
                PromiseAll([k \in 1..(n + 1) |->
                              IF k <= n
                              THEN fetchJSON(HttpResponse(TRUE, "200", "",
                                                          Some(Document("full", k))))
                              ELSE fetchJSON(res)]),
                n + 1 < NumRequests, "")

\* the requests of call c that were still pending when it ended settle
\* (fulfilled or rejected): nothing awaits them
LateSettle(c) ==
  /\ cycles[c].pc = "done"
  /\ cycles[c].outstanding
  /\ cycles' = [cycles EXCEPT ![c].outstanding = FALSE]
  /\ UNCHANGED <<slots, lastUpdated, hasUploaded, uploading, nCycles, uploads,
                 nUploads, nCalls, toasts, notice, clock, settled, overlapped>>
  /\ UNCHANGED <<streamVars, norm>>

(***************************************************************************)
(* onFiles.                                                                *)
(***************************************************************************)
\* onFiles up to the POST: the empty-list return, the extension check,
\* setUploading(true) and the fetch call
OnFilesStart(files) ==
  IF Len(files) = 0
  THEN UNCHANGED <<uploads, nUploads, uploading, toasts, notice>>
  ELSE IF ~IsExcelName(files[1])
       THEN /\ Toast(T_InvalidFile, D_InvalidFile)
            /\ UNCHANGED <<uploads, nUploads, uploading>>
       ELSE /\ nUploads' = nUploads + 1
            /\ uploads' = [uploads EXCEPT ![nUploads + 1].pc = "posting"]
            /\ uploading' = TRUE
            /\ UNCHANGED <<toasts, notice>>

\* The file input's change event or a drop on the dropzone.  The buttons that
\* open the file dialog are disabled while uploading; the dropzone, rendered
\* while no data is present, is not.
OnFiles(files) ==
  /\ nCycles > 0
  /\ nCalls < MaxCalls
  /\ ~uploading \/ ~hasUploaded
  /\ nCalls' = nCalls + 1
  /\ OnFilesStart(files)
  /\ UNCHANGED <<slots, lastUpdated, hasUploaded, cycles, nCycles, clock, settled,
                 overlapped>>
  /\ UNCHANGED <<streamVars, norm>>

\* a catch branch without the finally block's setUploading(false)
UploadFailsWithoutFinally(u, message) ==
  /\ uploads' = [uploads EXCEPT ![u].pc = "done"]
  /\ Toast(T_UploadFailed, IF message # "" THEN message ELSE "Please try again.")
  /\ UNCHANGED uploading

\* catch: toast.error("Upload failed", { description: e?.message || "Please try again." });
\* finally: setUploading(false)
UploadFails(u, message) ==
  /\ uploads' = [uploads EXCEPT ![u].pc = "done"]
  /\ Toast(T_UploadFailed, IF message # "" THEN message ELSE "Please try again.")
  /\ uploading' = FALSE

\* an onFiles that calls refreshAll without awaiting it: setHasUploaded(true)
\* and the finally block run at once
PostSettlesWithoutAwait(u, res) ==
  /\ uploads[u].pc = "posting"
  /\ IF res.kind = "network"
     THEN /\ UploadFails(u, res.message)
          /\ UNCHANGED <<slots, cycles, nCycles, settled, overlapped, hasUploaded>>
     ELSE IF ~res.ok
          THEN /\ uploads' = [uploads EXCEPT ![u].pc = "text"]
               /\ UNCHANGED <<uploading, slots, cycles, nCycles, toasts, notice,
                              settled, overlapped, hasUploaded>>
          ELSE /\ Toast(T_UploadComplete, D_UploadComplete)
               /\ RefreshStart(0)
               /\ uploads' = [uploads EXCEPT ![u].pc = "done"]
               /\ hasUploaded' = TRUE
               /\ uploading' = FALSE
  /\ UNCHANGED <<lastUpdated, nUploads, nCalls, clock>>
  /\ UNCHANGED <<streamVars, norm>>

\* the POST of call u settles with res
PostSettles(u, res) ==
  /\ uploads[u].pc = "posting"
  /\ IF res.kind = "network"
     THEN /\ UploadFails(u, res.message)
          /\ UNCHANGED <<slots, cycles, nCycles, settled, overlapped>>
     ELSE IF ~res.ok
          THEN /\ uploads' = [uploads EXCEPT ![u].pc = "text"]
               /\ UNCHANGED <<uploading, slots, cycles, nCycles, toasts, notice,
                              settled, overlapped>>
          ELSE /\ Toast(T_UploadComplete, D_UploadComplete)
               /\ RefreshStart(u)
               /\ uploads' = [uploads EXCEPT ![u].pc = "refreshing"]
               /\ UNCHANGED uploading
  /\ UNCHANGED <<lastUpdated, hasUploaded, nUploads, nCalls, clock>>
  /\ UNCHANGED <<streamVars, norm>>

\* res.text().catch(() => "") of a non-2xx response settles with text;
\* throw new Error(text || "Upload failed")
TextSettles(u, text) ==
  /\ uploads[u].pc = "text"
  /\ UploadFails(u, IF text # "" THEN text ELSE "Upload failed")
  /\ UNCHANGED <<slots, lastUpdated, hasUploaded, cycles, nCycles, nUploads, nCalls,
                 clock, settled, overlapped>>
  /\ UNCHANGED <<streamVars, norm>>

Next ==
  \/ Mount
  \/ ClickRefresh
  \/ \E c \in Cycles, p \in PayloadShapes : AllFulfil(c, p)
  \/ \E c \in Cycles, n \in RejectPoints, res \in FailingResponses :
        OneRejects(c, n, res)
  \/ \E c \in Cycles : LateSettle(c)
  \/ \E files \in FileLists : OnFiles(files)
  \/ \E u \in Uploads, res \in UploadResponses : PostSettles(u, res)
  \/ \E u \in Uploads, text \in UploadErrorTexts : TextSettles(u, text)

Spec == Init /\ [][Next]_vars

(***************************************************************************)
(* The chat widget's actions.                                              *)
(***************************************************************************)
\* m.map((msg) => (msg.id === assistantId ? { ...msg, content: text } : msg))
SetContent(msgs, id, text) ==
  [k \in DOMAIN msgs |->
     IF msgs[k].id = id THEN [msgs[k] EXCEPT !.content = text] ELSE msgs[k]]

\* m.map((msg) => (msg.role === "assistant" && msg.content === ""
\*                 ? { ...msg, content: `Error: ${...}` } : msg))
SetErrorOnEmpty(msgs, note) ==
  [k \in DOMAIN msgs |->
     IF msgs[k].role = "assistant" /\ msgs[k].content = <<>>
     THEN [msgs[k] EXCEPT !.content = <<note>>]
     ELSE msgs[k]]

\* `Error: ${err?.message || "Something went wrong"}`
ChatErrorNote(message) ==
  "Error: " \o (IF message # "" THEN message ELSE "Something went wrong")

\* the content of the assistant message of turn t
ContentOf(msgs, t) ==
  msgs[CHOOSE k \in DOMAIN msgs : msgs[k].id = AssistantId(t)].content

\* setOpen(true) / setOpen(false): the launcher, the close button, the
\* epcl:chat-open and epcl:chat-close events
ChatToggle ==
  /\ chatOpen' = ~chatOpen
  /\ UNCHANGED <<messages, chatLoading, turns, nTurns>>
  /\ UNCHANGED <<dashVars, norm, feed, cardVars>>

\* sendQuestion up to the fetch call; a blank question, or a call while
\* loading, returns at once
SendQuestion(question) ==
  /\ nTurns < MaxTurns
  /\ chatOpen
  /\ IF Trim(question) = <<>> \/ chatLoading
     THEN UNCHANGED <<messages, chatLoading, turns, nTurns>>
     ELSE /\ nTurns' = nTurns + 1
          /\ messages' = messages \o
               << [id |-> UserId(nTurns + 1), role |-> "user", content |-> Trim(question)],
                  [id |-> AssistantId(nTurns + 1), role |-> "assistant", content |-> <<>>] >>
          /\ chatLoading' = TRUE
          /\ turns' = [turns EXCEPT ![nTurns + 1].pc = "fetching"]
  /\ UNCHANGED <<chatOpen, dashVars, norm, feed, cardVars>>

\* a catch block that no finally block follows
ChatFailsWithoutFinally(t, message) ==
  /\ messages' = SetErrorOnEmpty(messages, ChatErrorNote(message))
  /\ UNCHANGED chatLoading
  /\ turns' = [turns EXCEPT ![t].pc = "failed", ![t].commits = @ + 1,
                            ![t].buffer = <<>>, ![t].chunks = <<>>,
                            ![t].status = ""]

\* catch: the error note on every assistant message with empty content;
\* finally: setLoading(false)
ChatFails(t, message) ==
  /\ messages' = SetErrorOnEmpty(messages, ChatErrorNote(message))
  /\ chatLoading' = FALSE
  /\ turns' = [turns EXCEPT ![t].pc = "failed", ![t].commits = @ + 1,
                            ![t].buffer = <<>>, ![t].chunks = <<>>,
                            ![t].status = ""]

\* the fetch of turn t settles with res
ChatResponds(t, res) ==
  /\ turns[t].pc = "fetching"
  /\ IF res.kind = "network" THEN ChatFails(t, res.message)
     ELSE IF ~res.ok
          THEN /\ turns' = [turns EXCEPT ![t].pc = "errtext", ![t].status = res.status]
               /\ UNCHANGED <<messages, chatLoading>>
          ELSE IF res.body = Null
               THEN /\ turns' = [turns EXCEPT ![t].pc = "bodytext"]
                    /\ UNCHANGED <<messages, chatLoading>>
               ELSE /\ turns' = [turns EXCEPT ![t].pc = "reading", ![t].chunks = res.body.v]
                    /\ UNCHANGED <<messages, chatLoading>>
  /\ UNCHANGED <<chatOpen, nTurns, dashVars, norm, feed, cardVars>>

\* res.text().catch(() => "") of a non-2xx response settles with text;
\* throw new Error(t || `Request failed: ${res.status}`)
ChatErrorText(t, text) ==
  /\ turns[t].pc = "errtext"
  /\ ChatFails(t, IF text # "" THEN text ELSE "Request failed: " \o turns[t].status)
  /\ UNCHANGED <<chatOpen, nTurns, dashVars, norm, feed, cardVars>>

\* a stream end that commits nothing
NoFinalCommit(msgs, id, text) == msgs

\* the final commit of the accumulated text
FinalCommit(msgs, id, text) == SetContent(msgs, id, text)

\* no reader: res.text() settles with txt; the text is committed; finally
ChatBodyText(t, txt) ==
  /\ turns[t].pc = "bodytext"
  /\ messages' = FinalCommit(messages, AssistantId(t), txt)
  /\ chatLoading' = FALSE
  /\ turns' = [turns EXCEPT ![t].pc = "done", ![t].textAccum = txt, ![t].commits = @ + 1]
  /\ UNCHANGED <<chatOpen, nTurns, dashVars, norm, feed, cardVars>>

\* the turn after its read loop handled a chunk and left the loop as `loop`
TurnAfterChunk(turn, loop) ==
  [turn EXCEPT !.buffer = loop.buffer, !.textAccum = loop.textAccum,
               !.scheduled = @ \/ loop.flush, !.sawDone = @ \/ loop.sawDone,
               !.chunks = Tail(@)]

\* the read loop of a call after the first n chunks of a script
RECURSIVE LoopAfter(_, _)
LoopAfter(script, n) ==
  IF n = 0 THEN LoopState(<<>>, <<>>, FALSE, FALSE, Null)
  ELSE FeedChunk(LoopAfter(script, n - 1).buffer, LoopAfter(script, n - 1).textAccum,
                 script[n])

\* the buffer, the accumulated text and the chunk of every read of a script
ChatFeeds ==
  UNION { { <<LoopAfter(script, n - 1).buffer, LoopAfter(script, n - 1).textAccum,
              script[n]>> : n \in 1..Len(script) } : script \in ChatScripts }

\* FeedChunk on the reads of the scripts, evaluated once
DecodedFeed == [x \in ChatFeeds |-> FeedChunk(x[1], x[2], x[3])]

\* reader.read() of turn t delivers the next chunk
ChatRead(t) ==
  /\ turns[t].pc = "reading"
  /\ turns[t].chunks # <<>>
  /\ turns' = [turns EXCEPT ![t] =
                 TurnAfterChunk(turns[t],
                                DecodedFeed[<<turns[t].buffer, turns[t].textAccum,
                                              Head(turns[t].chunks)>>])]
  /\ UNCHANGED <<messages, chatLoading, chatOpen, nTurns, dashVars, norm, feed, cardVars>>

\* reader.read() of turn t reports done: the final commit; finally
ChatReadDone(t) ==
  /\ turns[t].pc = "reading"
  /\ turns[t].chunks = <<>>
  /\ messages' = FinalCommit(messages, AssistantId(t), turns[t].textAccum)
  /\ chatLoading' = FALSE
  /\ turns' = [turns EXCEPT ![t].pc = "done", ![t].commits = @ + 1,
                            ![t].buffer = <<>>]
  /\ UNCHANGED <<chatOpen, nTurns, dashVars, norm, feed, cardVars>>

\* reader.read() of turn t rejects: the connection broke
ChatReadError(t, message) ==
  /\ turns[t].pc = "reading"
  /\ ChatFails(t, message)
  /\ UNCHANGED <<chatOpen, nTurns, dashVars, norm, feed, cardVars>>

\* the text a flush callback commits: textAccum as it is when it runs
FlushedMessages(msgs, t) ==
  IF turns[t].scheduled THEN SetContent(msgs, AssistantId(t), turns[t].textAccum) ELSE msgs

RECURSIVE FlushAll(_, _)
FlushAll(msgs, t) ==
  IF t > MaxTurns THEN msgs ELSE FlushAll(FlushedMessages(msgs, t), t + 1)

\* a display frame: the callbacks given to requestAnimationFrame run
\* (scheduled = false; setMessages with textAccum)
DisplayFrame ==
  /\ \E t \in Turns : turns[t].scheduled \/ turns[t].commits > 0
  /\ messages' = FlushAll(messages, 1)
  /\ turns' = [t \in Turns |->
                 [turns[t] EXCEPT !.scheduled = FALSE,
                                  !.commits = IF turns[t].scheduled THEN 1 ELSE 0]]
  /\ UNCHANGED <<chatLoading, chatOpen, nTurns, dashVars, norm, feed, cardVars>>

Questions == {<<" ">>, <<"q">>}

ChatNext ==
  \/ ChatToggle
  \/ \E question \in Questions : SendQuestion(question)
  \/ \E t \in Turns, res \in ChatResponses : ChatResponds(t, res)
  \/ \E t \in Turns, text \in ChatErrorTexts : ChatErrorText(t, text)
  \/ \E t \in Turns, txt \in ChatBodyTexts : ChatBodyText(t, txt)
  \/ \E t \in Turns : ChatRead(t)
  \/ \E t \in Turns : ChatReadDone(t)
  \/ \E t \in Turns, message \in ReadErrors : ChatReadError(t, message)
  \/ DisplayFrame

SpecStream == Init /\ [][ChatNext]_vars

\* the steps of a transport that ends: the fetch settles, res.text()
\* settles, reader.read() delivers the next chunk or reports done
TransportStep ==
  \/ \E t \in Turns, res \in ChatResponses : ChatResponds(t, res)
  \/ \E t \in Turns, text \in ChatErrorTexts : ChatErrorText(t, text)
  \/ \E t \in Turns, txt \in ChatBodyTexts : ChatBodyText(t, txt)
  \/ \E t \in Turns : ChatRead(t)
  \/ \E t \in Turns : ChatReadDone(t)

\* the chat widget on transports that eventually end or fail
SpecStreamFair == SpecStream /\ WF_vars(TransportStep)

(***************************************************************************)
(* The insights dialog's actions.                                          *)
(***************************************************************************)
\* `\n[insights error] ${e?.message || String(e)}`
InsightsErrorNote(message) ==
  "\n[insights error] " \o (IF message # "" THEN message ELSE "Error")

\* the card's state as [insights, loading, sessions]
CardState(text, loading, all) == [insights |-> text, loading |-> loading, sessions |-> all]

\* catch and finally of session k, which caught an error with this message
SessionFails(card, k, message) ==
  CardState(card.insights \o <<InsightsErrorNote(message)>>, FALSE,
            [card.sessions EXCEPT ![k].pc = "failed", ![k].chunks = <<>>,
                                  ![k].status = ""])

\* the message an aborted session catches: the AbortError of the fetch or
\* of the read; awaiting res.text().catch(() => ""), the Error thrown next
AbortedWith(session) ==
  IF session.pc = "errtext" THEN "Request failed: " \o session.status ELSE AbortMessage

\* controllerRef.current?.abort(): the pending promise of the session in
\* flight rejects, and the session runs its catch and finally before any
\* other task
Abort(card, k) ==
  IF k = 0 \/ card.sessions[k].pc \notin InsightsInFlight
  THEN card
  ELSE SessionFails(CardState(card.insights, card.loading,
                              [card.sessions EXCEPT ![k].aborted = TRUE]),
                    k, AbortedWith(card.sessions[k]))

\* fetchInsights up to the fetch call, on the state `card`, as session k
FetchInsights(card, k) ==
  Abort(CardState(<<>>, TRUE, [card.sessions EXCEPT ![k].pc = "fetching"]), k - 1)

Card == CardState(insights, cardLoading, sessions)

CommitCard(card) ==
  /\ insights' = card.insights
  /\ cardLoading' = card.loading
  /\ sessions' = card.sessions

\* the dialog opens: the effect's cleanup aborts, the effect calls
\* fetchInsights, which aborts the same controller again; a call the abort
\* interrupts runs its catch and finally after fetchInsights has issued the
\* new request
CardOpens ==
  /\ ~cardOpen
  /\ nOpens < MaxOpens
  /\ cardOpen' = TRUE
  /\ nOpens' = nOpens + 1
  /\ CommitCard(FetchInsights(Card, nOpens + 1))
  /\ UNCHANGED <<dashVars, norm, feed, chatVars>>

\* a close of the dialog that aborts nothing
CardClosesWithoutAbort ==
  /\ cardOpen
  /\ cardOpen' = FALSE
  /\ UNCHANGED <<insights, cardLoading, sessions>>
  /\ UNCHANGED <<nOpens, dashVars, norm, feed, chatVars>>

\* the dialog closes: the effect's cleanup aborts, the effect aborts
CardCloses ==
  /\ cardOpen
  /\ cardOpen' = FALSE
  /\ CommitCard(Abort(Abort(Card, nOpens), nOpens))
  /\ UNCHANGED <<nOpens, dashVars, norm, feed, chatVars>>

\* the fetch of session k settles with res
InsightsResponds(k, res) ==
  /\ sessions[k].pc = "fetching"
  /\ IF res.kind = "network" THEN CommitCard(SessionFails(Card, k, res.message))
     ELSE IF ~res.ok \/ res.body = Null
          THEN CommitCard(CardState(insights, cardLoading,
                 [sessions EXCEPT ![k].pc = "errtext", ![k].status = res.status]))
          ELSE CommitCard(CardState(insights, cardLoading,
                 [sessions EXCEPT ![k].pc = "reading", ![k].chunks = res.body.v]))
  /\ UNCHANGED <<cardOpen, nOpens, dashVars, norm, feed, chatVars>>

\* res.text().catch(() => "") settles with text;
\* throw new Error(t || `Request failed: ${res.status}`)
InsightsErrorText(k, text) ==
  /\ sessions[k].pc = "errtext"
  /\ CommitCard(SessionFails(Card, k, IF text # "" THEN text
                                      ELSE "Request failed: " \o sessions[k].status))
  /\ UNCHANGED <<cardOpen, nOpens, dashVars, norm, feed, chatVars>>

\* reader.read() of session k delivers the next chunk
InsightsRead(k) ==
  /\ sessions[k].pc = "reading"
  /\ sessions[k].chunks # <<>>
  /\ CommitCard(CardState(insights \o <<Head(sessions[k].chunks)>>, cardLoading,
       [sessions EXCEPT ![k].acc = @ \o <<Head(sessions[k].chunks)>>,
                        ![k].chunks = Tail(@)]))
  /\ UNCHANGED <<cardOpen, nOpens, dashVars, norm, feed, chatVars>>

\* reader.read() of session k reports done: finally
InsightsReadDone(k) ==
  /\ sessions[k].pc = "reading"
  /\ sessions[k].chunks = <<>>
  /\ CommitCard(CardState(insights, FALSE, [sessions EXCEPT ![k].pc = "done"]))
  /\ UNCHANGED <<cardOpen, nOpens, dashVars, norm, feed, chatVars>>

\* reader.read() of session k rejects: the connection broke
InsightsReadError(k, message) ==
  /\ sessions[k].pc = "reading"
  /\ CommitCard(SessionFails(Card, k, message))
  /\ UNCHANGED <<cardOpen, nOpens, dashVars, norm, feed, chatVars>>

CardNext ==
  \/ CardOpens
  \/ CardCloses
  \/ \E k \in Opens, res \in InsightResponses : InsightsResponds(k, res)
  \/ \E k \in Opens, text \in InsightErrorTexts : InsightsErrorText(k, text)
  \/ \E k \in Opens : InsightsRead(k)
  \/ \E k \in Opens : InsightsReadDone(k)
  \/ \E k \in Opens, message \in ReadErrors : InsightsReadError(k, message)

SpecInsights == Init /\ [][CardNext]_vars

\* the chat widget and an insights dialog side by side
SlotsNext == ChatNext \/ CardNext

SpecSlots == Init /\ [][SlotsNext]_vars

(***************************************************************************)
(* The normalizers applied to a document.                                  *)
(***************************************************************************)
NormDrawInit ==
  /\ DashInit
  /\ StreamInit
  /\ norm \in {Unparsed(doc) : doc \in NormalizerDocs}

Applied(by, result) == [doc |-> norm.doc, by |-> by, result |-> result]

ApplyCategoryChart ==
  /\ norm.by = ""
  /\ norm' = Applied("parseCategoryChart", parseCategoryChart(norm.doc))
  /\ UNCHANGED <<dashVars, streamVars>>

ApplyStackedChart ==
  /\ norm.by = ""
  /\ norm' = Applied("parseStackedChart", parseStackedChart(norm.doc))
  /\ UNCHANGED <<dashVars, streamVars>>

ApplyMonthlyTrends ==
  /\ norm.by = ""
  /\ norm' = Applied("parseMonthlyTrends", parseMonthlyTrends(norm.doc))
  /\ UNCHANGED <<dashVars, streamVars>>

ApplyHeatmap ==
  /\ norm.by = ""
  /\ norm' = Applied("parseHeatmap", parseHeatmap(norm.doc))
  /\ UNCHANGED <<dashVars, streamVars>>

\* the KPI composition of refreshAll on the series parseCategoryChart returned
ComposeFromCategory ==
  /\ norm.by = "parseCategoryChart"
  /\ norm.result.ok
  /\ norm' = Applied("kpis", ComposeKpis(norm.result.val))
  /\ UNCHANGED <<dashVars, streamVars>>

NormNext ==
  \/ ApplyCategoryChart
  \/ ApplyStackedChart
  \/ ApplyMonthlyTrends
  \/ ApplyHeatmap
  \/ ComposeFromCategory

SpecNormalizers == NormDrawInit /\ [][NormNext]_vars

(***************************************************************************)
(* The read loop of sendQuestion on its own: a stream text is delivered in *)
(* chunks cut at arbitrary places.                                         *)
(***************************************************************************)
\* the response body of a chat stream: sendQuestion enters the read loop
FeedInit ==
  /\ DashInit
  /\ ChatInit
  /\ CardInit
  /\ NormInit
  /\ feed \in {[IdleFeed EXCEPT !.state = "reading", !.text = t] : t \in StreamTexts}

\* how the read loop stands after a call that left it as `loop`
FeedAfter(loop, n) ==
  [state |-> IF loop.thrown = Null THEN "reading" ELSE "failed",
   text |-> feed.text, pos |-> feed.pos + n, buffer |-> loop.buffer,
   textAccum |-> loop.textAccum, sawDone |-> feed.sawDone \/ loop.sawDone]

\* reader.read() delivers the next n characters of the stream
ReadChunk(n) ==
  /\ feed.state = "reading"
  /\ feed.pos + n <= Len(feed.text)
  /\ feed' = FeedAfter(FeedChunk(feed.buffer, feed.textAccum,
                                 SubSeq(feed.text, feed.pos + 1, feed.pos + n)), n)
  /\ UNCHANGED <<dashVars, norm, chatVars, cardVars>>

\* reader.read() reports done: the stream has been delivered whole
ReadDone ==
  /\ feed.state = "reading"
  /\ feed.pos = Len(feed.text)
  /\ feed' = [feed EXCEPT !.state = "ended"]
  /\ UNCHANGED <<dashVars, norm, chatVars, cardVars>>

FeedNext ==
  \/ \E n \in 1..MaxChunk : ReadChunk(n)
  \/ ReadDone

SpecDecoder == FeedInit /\ [][FeedNext]_vars

(***************************************************************************)
(* Properties of the dashboard synchronizer.                               *)
(***************************************************************************)
\* call c leaves the batched wait in this step and runs to its end
Settles(c) == cycles[c].pc = "waiting" /\ cycles'[c].pc = "done"

\* C1: when a refresh cycle in which a request rejected settles, every chart
\* slot and the KPI slot holds loading=false, data=null and error equal to the
\* rejection's message (the generic fallback when it has none), whatever the
\* slots held before.
FailedCycleLeavesErrorOnly ==
  [][\A c \in Cycles :
       (Settles(c) /\ settled'.state = "rejected")
       => \A s \in AllSlots :
            slots'[s] = [loading |-> FALSE, data |-> Null,
                         error |-> Some(IF settled'.message # "" THEN settled'.message
                                        ELSE "Failed to load charts")]]_vars

\* C2: in every reachable state no slot has data and error both non-null.
DataAndErrorExclusive ==
  \A s \in AllSlots : ~(slots[s].data # Null /\ slots[s].error # Null)

\* C3: every refreshAll call puts all 17 chart slots and the KPI slot in the
\* loading state before any of its requests settles.
RefreshMarksEverySlotLoading ==
  [][nCycles' = nCycles + 1 => \A s \in AllSlots : slots'[s].loading]_vars

\* C4: a cycle whose requests all fulfil commits to every chart slot
\* loading=false, error=null and the normalizer's result for that cycle's own
\* document, sets the KPI slot to the KPIs of that cycle's entries-by-category
\* series and records the time; a cycle with a rejected request leaves the
\* last-updated time as it was.
FulfilledCycleCommits ==
  [][\A c \in Cycles :
       /\ (Settles(c) /\ settled'.state = "fulfilled")
          => /\ \A s \in ChartSlotSet :
                  /\ slots'[s].loading = FALSE
                  /\ slots'[s].error = Null
                  /\ Normalize(s, Document(settled'.shape, SlotIndex(s))).ok
                  /\ slots'[s].data =
                       Some(Normalize(s, Document(settled'.shape, SlotIndex(s))).val)
             /\ slots'["kpis"].loading = FALSE
             /\ slots'["kpis"].error = Null
             /\ slots'["kpis"].data # Null
             /\ slots'["kpis"].data = Some(ComposeKpis(slots'["entriesByCategory"].data.v).val)
             /\ lastUpdated' = clock
       /\ (Settles(c) /\ settled'.state = "rejected") => lastUpdated' = lastUpdated]_vars


\* C5: the slot commits of a cycle are one batch.  A step in which a cycle
\* settles leaves all 18 slots showing one outcome (every slot not loading,
\* and either every slot with data and no error or every slot with the same
\* error); any other step shows no new data and no new error in any slot.
CommitsAreOneBatch ==
  [][IF \E c \in Cycles : Settles(c)
     THEN \/ \A s \in AllSlots :
               ~slots'[s].loading /\ slots'[s].error = Null /\ slots'[s].data # Null
          \/ \A s \in AllSlots :
               /\ ~slots'[s].loading
               /\ slots'[s].error # Null
               /\ slots'[s].error = slots'["kpis"].error
     ELSE \A s \in AllSlots :
            /\ slots'[s].data = slots[s].data
            /\ slots'[s].error \in {slots[s].error, Null}]_vars

\* a cycle has committed its failure to every slot while another cycle is
\* still in flight
CommitsAreOneBatchWitness ==
  /\ settled.state = "rejected"
  /\ \E c \in Cycles : cycles[c].pc = "waiting"
  /\ \A s \in AllSlots : slots[s].error # Null /\ ~slots[s].loading

\* C6: after overlapping refreshAll calls, once no call is in flight, the
\* slots hold exactly what the call that completed last committed: after a
\* rejected request loading=false, the error and no data; after a successful
\* commit the normalized documents of that call.
SlotsReflectLastCompletedCycle ==
  (overlapped /\ \A c \in Cycles : cycles[c].pc # "waiting")
  => /\ settled.state = "rejected"
        => \A s \in AllSlots :
             /\ ~slots[s].loading
             /\ slots[s].error = Some(IF settled.message # "" THEN settled.message
                                      ELSE "Failed to load charts")
             /\ slots[s].data = Null
     /\ settled.state = "fulfilled"
        => \A s \in ChartSlotSet :
             /\ ~slots[s].loading
             /\ slots[s].error = Null
                => /\ Normalize(s, Document(settled.shape, SlotIndex(s))).ok
                   /\ slots[s].data =
                        Some(Normalize(s, Document(settled.shape, SlotIndex(s))).val)

\* C7: a step in which a cycle settles as failed (the slots then carry an
\* error) emits exactly one "Error loading data" toast; a step in which a
\* cycle settles with success, and every other step (the late settlement of
\* the remaining requests of a failed cycle included), emits none.
FailedCycleToastsOnce ==
  [][toasts'[T_LoadError] =
       toasts[T_LoadError]
       + (IF /\ \E c \in Cycles : Settles(c)
             /\ \E s \in AllSlots : slots'[s].error # Null
          THEN 1 ELSE 0)]_vars

\* the only cycle failed on its first rejection, its other requests have
\* settled since, and one toast was emitted
FailedCycleToastsOnceWitness ==
  /\ nCycles = 1
  /\ cycles[1].pc = "done"
  /\ ~cycles[1].outstanding
  /\ settled.state = "rejected"
  /\ toasts[T_LoadError] = 1
  /\ notice.title = T_LoadError

\* C8: onFiles with a first file whose name does not end in .xlsx or .xls
\* (in any letter case) issues no upload request, starts no refresh cycle,
\* leaves the uploading flag, the data-present flag and every slot unchanged
\* and shows the validation message; with a name that does, it is accepted:
\* the uploading flag is set and the POST is issued.
ExtensionCheckGuardsUpload ==
  [][\A files \in FileLists :
       (Len(files) > 0 /\ OnFiles(files))
       => IF files[1] \in {F_a_xlsx, F_b_xls, F_C_XLSX}
          THEN /\ nUploads' = nUploads + 1
               /\ uploads'[nUploads + 1].pc = "posting"
               /\ uploading'
               /\ toasts' = toasts
          ELSE /\ uploads' = uploads
               /\ nUploads' = nUploads
               /\ cycles' = cycles
               /\ nCycles' = nCycles
               /\ uploading' = uploading
               /\ hasUploaded' = hasUploaded
               /\ slots' = slots
               /\ lastUpdated' = lastUpdated
               /\ toasts' = [toasts EXCEPT ![T_InvalidFile] = @ + 1]
               /\ notice' = [title |-> T_InvalidFile, description |-> D_InvalidFile]]_vars

\* one file was rejected by the extension check and another was accepted
ExtensionCheckGuardsUploadWitness ==
  /\ toasts[T_InvalidFile] = 1
  /\ notice.title = T_InvalidFile
  /\ nUploads = 1
  /\ uploads[1].pc = "posting"
  /\ uploading

\* C9: a 2xx answer to the POST of an upload starts exactly one refreshAll
\* call, which that upload awaits; the upload has exactly one such call while
\* it waits and none before or after; hasUploaded is set by the upload in the
\* step in which that call settles, not before.
UploadRefreshesOnceThenMarksData ==
  [][\A u \in Uploads :
       /\ \A res \in UploadResponses :
            (res.kind = "http" /\ res.ok /\ PostSettles(u, res))
            => /\ nCycles' = nCycles + 1
               /\ cycles'[nCycles + 1] = [pc |-> "waiting", outstanding |-> TRUE, by |-> u]
               /\ \A c \in Cycles \ {nCycles + 1} : cycles'[c] = cycles[c]
               /\ uploads'[u].pc = "refreshing"
               /\ hasUploaded' = hasUploaded
       /\ uploads[u].pc = "refreshing"
          => /\ Cardinality({c \in Cycles : cycles[c].by = u}) = 1
             /\ \A c \in Cycles :
                  cycles[c].by = u
                  => /\ cycles[c].pc = "waiting"
                     /\ IF Settles(c)
                        THEN uploads'[u].pc = "done" /\ hasUploaded'
                        ELSE uploads'[u].pc = "refreshing" /\ cycles'[c] = cycles[c]
       /\ uploads[u].pc # "refreshing" => \A c \in Cycles : cycles[c].by # u]_vars

\* the only upload got a 2xx answer, its refresh cycle has settled and the
\* upload has run to its end
UploadRefreshesOnceThenMarksDataWitness ==
  /\ nUploads = 1
  /\ uploads[1].pc = "done"
  /\ toasts[T_UploadComplete] = 1
  /\ nCycles = 2
  /\ cycles[2].pc = "done"
  /\ hasUploaded
  /\ ~uploading

\* C10: an upload whose POST fails (the fetch rejects, or the response is
\* not 2xx) shows the "Upload failed" toast with the error's message, starts
\* no refreshAll call, changes no slot, not the last-updated time and not
\* hasUploaded in any of its steps, and ends with uploading = false.
FailedUploadLeavesDashboard ==
  [][\A u \in Uploads :
       /\ \A files \in FileLists :
            OnFiles(files)
            => /\ slots' = slots /\ lastUpdated' = lastUpdated
               /\ hasUploaded' = hasUploaded /\ cycles' = cycles /\ nCycles' = nCycles
       /\ \A res \in UploadResponses :
            /\ (res.kind = "network" /\ PostSettles(u, res))
               => /\ slots' = slots /\ lastUpdated' = lastUpdated
                  /\ hasUploaded' = hasUploaded /\ cycles' = cycles /\ nCycles' = nCycles
                  /\ ~uploading'
                  /\ uploads'[u].pc = "done"
                  /\ toasts' = [toasts EXCEPT ![T_UploadFailed] = @ + 1]
                  /\ notice' = [title |-> T_UploadFailed,
                                description |-> IF res.message # "" THEN res.message
                                                ELSE "Please try again."]
            /\ (res.kind = "http" /\ ~res.ok /\ PostSettles(u, res))
               => /\ slots' = slots /\ lastUpdated' = lastUpdated
                  /\ hasUploaded' = hasUploaded /\ cycles' = cycles /\ nCycles' = nCycles
                  /\ uploads'[u].pc = "text"
       /\ \A text \in UploadErrorTexts :
            TextSettles(u, text)
            => /\ slots' = slots /\ lastUpdated' = lastUpdated
               /\ hasUploaded' = hasUploaded /\ cycles' = cycles /\ nCycles' = nCycles
               /\ ~uploading'
               /\ uploads'[u].pc = "done"
               /\ toasts' = [toasts EXCEPT ![T_UploadFailed] = @ + 1]
               /\ notice' = [title |-> T_UploadFailed,
                             description |-> IF text # "" THEN text ELSE "Upload failed"]]_vars

\* the only upload got a non-2xx answer with a body text, which the toast shows
FailedUploadLeavesDashboardWitness ==
  /\ nUploads = 1
  /\ uploads[1].pc = "done"
  /\ ~uploading
  /\ toasts[T_UploadFailed] = 1
  /\ notice = [title |-> T_UploadFailed, description |-> "Sheet 'Incidents' not found"]

(***************************************************************************)
(* Properties of the chat stream decoding.                                 *)
(***************************************************************************)
\* C11: decoding does not depend on the chunk boundaries: however the part
\* of a stream text delivered so far was cut into chunks, the accumulated
\* text and the pending buffer are those of feeding that part as one chunk.
DecodingIgnoresChunkBoundaries ==
  feed.state \in {"reading", "ended"}
  => /\ feed.textAccum = FeedChunk(<<>>, <<>>, SubSeq(feed.text, 1, feed.pos)).textAccum
     /\ feed.buffer = FeedChunk(<<>>, <<>>, SubSeq(feed.text, 1, feed.pos)).buffer

\* C12: a complete line whose payload is not JSON is dropped: the read loop
\* never fails, and the stream with such a line between two valid frames
\* ends with the accumulated text of the same stream without that line.
MalformedLineIsDropped ==
  /\ feed.state # "failed"
  /\ (feed.text = MalformedStream /\ feed.state = "ended")
     => feed.textAccum = FeedChunk(<<>>, <<>>, WellFormedStream).textAccum

\* the stream with the malformed line was read to its end and both valid
\* frames were appended
MalformedLineIsDroppedWitness ==
  /\ feed.text = MalformedStream
  /\ feed.state = "ended"
  /\ feed.textAccum = <<"a", "b", "c">>

\* C13: once a chat session has decoded a "[DONE]" line it is complete: no
\* content is appended to its accumulated text afterwards, and its loading
\* state has ended without waiting for the transport to close.
DoneLineEndsSession ==
  [][\A t \in Turns :
       /\ turns[t].sawDone => turns'[t].textAccum = turns[t].textAccum
       /\ turns'[t].sawDone => turns'[t].pc = "done" /\ ~chatLoading']_vars

\* a sendQuestion call that can still change the chat's displayed text or
\* its loading flag: it has not returned, or its flush callback is pending
\* and will write a text other than the one shown
ActiveTurn(t) ==
  \/ turns[t].pc \in ChatInFlight
  \/ turns[t].scheduled /\ ContentOf(messages, t) # turns[t].textAccum

\* a fetchInsights call that has not returned
ActiveSession(k) == sessions[k].pc \in InsightsInFlight

\* C14: in every reachable state each conversation slot (the chat widget,
\* the insights dialog of a card) has at most one active session, that is at
\* most one session that can still change the slot's displayed text or its
\* loading flag.
AtMostOneActiveSession ==
  /\ Cardinality({t \in Turns : ActiveTurn(t)}) <= 1
  /\ Cardinality({k \in Opens : ActiveSession(k)}) <= 1

\* C15: whenever the chat widget is closed or a new chat turn starts while a
\* chat stream is in flight, and whenever the insights dialog is closed or
\* reopened while its stream is in flight, the transport of the session in
\* flight is signalled to abort.
NewTurnOrCloseAbortsTransport ==
  [][/\ ((chatOpen /\ ~chatOpen') \/ nTurns' # nTurns)
        => \A t \in Turns : turns[t].pc \in ChatInFlight => turns'[t].aborted
     /\ ((cardOpen /\ ~cardOpen') \/ nOpens' # nOpens)
        => \A k \in Opens : sessions[k].pc \in InsightsInFlight => sessions'[k].aborted]_vars

\* C16: once an insights session is cancelled the text shown for it never
\* changes again: neither the step that cancels it nor any later step before
\* the next session starts changes the text.
CancelledTextNeverChanges ==
  [][\A k \in Opens :
       (sessions'[k].aborted /\ nOpens = k /\ nOpens' = k) => insights' = insights]_vars

\* C17: when a transport error ends a session that had accumulated content,
\* the final text displayed for it (with no flush pending) is the content
\* accumulated before the error followed by an error annotation.
ErrorKeepsContentAndAnnotation ==
  /\ \A t \in Turns :
       (turns[t].pc = "failed" /\ turns[t].textAccum # <<>> /\ ~turns[t].scheduled)
       => \E message \in ReadErrors :
            ContentOf(messages, t) = turns[t].textAccum \o <<ChatErrorNote(message)>>
  /\ \A k \in Opens :
       (sessions[k].pc = "failed" /\ nOpens = k /\ sessions[k].acc # <<>>)
       => \E message \in ReadErrors \cup {AbortMessage} :
            insights = sessions[k].acc \o <<InsightsErrorNote(message)>>

\* C18: in one display refresh interval at most one commit of a turn's
\* assistant message is made, the commit at the end of the stream included.
OneCommitPerDisplayInterval == \A t \in Turns : turns[t].commits <= 1

\* C19: a commit made by a flush callback carries the accumulated text as it
\* is when the callback runs; when the stream ends normally the assistant
\* message holds the complete accumulated text, which is not extended
\* afterwards, and a flush still pending then leaves the message as it is.
FlushCommitsLatestText ==
  [][\A t \in Turns :
       /\ (turns[t].scheduled /\ ~turns'[t].scheduled)
          => ContentOf(messages', t) = turns'[t].textAccum
       /\ (turns[t].pc \in ChatInFlight /\ turns'[t].pc = "done")
          => ContentOf(messages', t) = turns'[t].textAccum
       /\ turns[t].pc = "done"
          => /\ turns'[t].textAccum = turns[t].textAccum
             /\ (turns[t].scheduled /\ ~turns'[t].scheduled)
                => ContentOf(messages', t) = ContentOf(messages, t)]_vars

\* a stream that ended normally with a flush still pending, after an
\* earlier flush had committed a shorter text
FlushCommitsLatestTextWitness ==
  \E t \in Turns :
    /\ turns[t].pc = "done"
    /\ turns[t].scheduled
    /\ turns[t].commits = 2
    /\ turns[t].textAccum = <<"a", "b", "c">>
    /\ ContentOf(messages, t) = <<"a", "b", "c">>

\* C20: each of the four normalizers is total: whatever JSON document it
\* is applied to, it returns a canonical model and does not throw.
NormalizersAreTotal == norm.by # "" => norm.result.ok

\* inputs the normalizers answer with the empty model
EmptyInputs == {JNull, JUndef, JObj(Field(K_error, JStr(S_x)))}

\* the empty model of the normalizer of slot s
EmptyModelOf(s) == IF Normalizer(s) = "heat" THEN EmptyHeatMatrix ELSE <<>>

\* the slots after a cycle, started on the present slots, whose 17 requests
\* all fulfil with the document doc
SlotsAfterCycleOn(doc) ==
  Continuation(MarkLoading(slots), lastUpdated,
               Fulfilled([k \in 1..NumRequests |-> doc]), clock).slots

\* C21: applied to null, undefined or a document with an error marker, the
\* category, grouped and trend normalizers return the empty sequence and
\* parseHeatmap the matrix with no labels, no values and min = max = 0; a
\* cycle whose responses are all such a document commits the empty model
\* with error null to every chart slot.
EmptyInputGivesEmptyModel ==
  norm.doc \in EmptyInputs
  => /\ norm.by \in {"parseCategoryChart", "parseStackedChart", "parseMonthlyTrends"}
        => norm.result = Ok(<<>>)
     /\ norm.by = "parseHeatmap"
        => /\ norm.result.ok
           /\ norm.result.val.x_labels = <<>>
           /\ norm.result.val.y_labels = <<>>
           /\ norm.result.val.values = <<>>
           /\ norm.result.val.min = JNum(0)
           /\ norm.result.val.max = JNum(0)
     /\ (norm.by # "" /\ norm.doc # JUndef)
        => \A s \in ChartSlotSet :
             SlotsAfterCycleOn(norm.doc)[s] =
               [loading |-> FALSE, error |-> Null, data |-> Some(EmptyModelOf(s))]

\* parseHeatmap has been applied to null
EmptyInputGivesEmptyModelWitness ==
  /\ norm.doc = JNull
  /\ norm.by = "parseHeatmap"
  /\ norm.result = Ok(EmptyHeatMatrix)

\* the numbers of the rows of a matrix, flattened
FlatValues(doc) == Flat(HeatValues(Get(doc, K_values)))

\* C22: parseHeatmap returns the supplied min and max when both are
\* supplied (0 included); when both are absent it returns the minimum and the
\* maximum of the flattened values, or 0 and 0 when there are no values.
HeatBoundsFromSourceOrValues ==
  (norm.by = "parseHeatmap" /\ norm.doc.t = "obj" /\ norm.result.ok)
  => /\ (Get(norm.doc, K_min).t = "num" /\ Get(norm.doc, K_max).t = "num")
        => /\ norm.result.val.min = Get(norm.doc, K_min)
           /\ norm.result.val.max = Get(norm.doc, K_max)
     /\ (Get(norm.doc, K_min) = JUndef /\ Get(norm.doc, K_max) = JUndef)
        => IF FlatValues(norm.doc) = <<>>
           THEN norm.result.val.min = JNum(0) /\ norm.result.val.max = JNum(0)
           ELSE /\ norm.result.val.min = MathMin(FlatValues(norm.doc))
                /\ norm.result.val.max = MathMax(FlatValues(norm.doc))

\* C23: every matrix parseHeatmap returns has as many value rows as y labels
\* and every row as long as the x labels.
HeatMatrixIsRectangular ==
  (norm.by = "parseHeatmap" /\ norm.result.ok)
  => /\ Len(norm.result.val.values) = Len(norm.result.val.y_labels)
     /\ \A r \in 1..Len(norm.result.val.values) :
          Len(norm.result.val.values[r]) = Len(norm.result.val.x_labels)

\* a category series: names that are strings, values that are counts
IsCategorySeries(series) ==
  \A i \in 1..Len(series) : series[i].name.t = "str" /\ series[i].value.t = "num"

\* the value of the first entry of the series named `name` whatever the
\* case, 0 when there is none
ValueNamed(series, name) ==
  IF \E i \in 1..Len(series) : ToLowerCase(series[i].name.v) = name
  THEN series[CHOOSE i \in 1..Len(series) :
                /\ ToLowerCase(series[i].name.v) = name
                /\ \A q \in 1..(i - 1) : ToLowerCase(series[q].name.v) # name].value
  ELSE JNum(0)

CycleWaitsForAllRequests ==
  \A c \in Cycles : cycles[c].pc = "done" => ~cycles[c].outstanding

\* C26: whenever the KPI slot holds data and is not loading, the data is the
\* KPI list derived from the series the entries-by-category slot holds.
KpisMatchCategorySeries ==
  (slots["kpis"].data # Null /\ ~slots["kpis"].loading)
  => /\ slots["entriesByCategory"].data # Null
     /\ ComposeKpis(slots["entriesByCategory"].data.v) = Ok(slots["kpis"].data.v)

\* C27: the uploading flag is true whenever the POST of an upload, or the
\* reading of its error text, is in flight.
UploadingWhileInFlight ==
  (\E u \in Uploads : uploads[u].pc \in {"posting", "text"}) => uploading

\* C28: while the newest fetchInsights call of a card is in flight, the
\* loading flag is set and the insights text is exactly what that call has
\* accumulated: the catch and finally of an earlier, aborted call have
\* neither appended to the text nor cleared the flag.
AbortedSessionLeavesNewerSession ==
  \A k \in Opens :
    (k = nOpens /\ ActiveSession(k))
    => /\ cardLoading
       /\ insights = sessions[k].acc
       /\ \A q \in 1..(k - 1) : ~ActiveSession(q)

\* the second call is reading, after the first was aborted by the close
AbortedSessionLeavesNewerSessionWitness ==
  /\ nOpens = 2
  /\ sessions[1].aborted
  /\ sessions[1].pc = "failed"
  /\ sessions[2].pc = "reading"
  /\ sessions[2].acc # <<>>

\* the notes the catch of sendQuestion can write
ChatErrorNotes ==
  {ChatErrorNote(message) :
     message \in ReadErrors \cup ChatErrorTexts \cup {"Failed to fetch", "Request failed: 500"}}

\* C29: a chat turn that ends in an error leaves every other message as it
\* was, and its own assistant message shows the error note.
FailingTurnChangesOnlyOwnMessage ==
  [][\A t \in Turns :
       (turns[t].pc \in ChatInFlight /\ turns'[t].pc = "failed")
       => /\ \A k \in DOMAIN messages :
               messages[k].id # AssistantId(t) => messages'[k] = messages[k]
          /\ ContentOf(messages', t) # <<>>
          /\ ContentOf(messages', t)[Len(ContentOf(messages', t))] \in ChatErrorNotes]_vars

\* C30: on transports that eventually end or fail, every chat turn that
\* passed the guard clears the loading flag again; while the flag is set no
\* sendQuestion call starts a turn or adds a message.
ChatTurnClearsLoading ==
  /\ chatLoading ~> ~chatLoading
  /\ [][chatLoading => (nTurns' = nTurns /\ Len(messages') = Len(messages))]_vars

\* a turn that decoded [DONE] has ended and loading is false
ChatTurnClearsLoadingWitness ==
  /\ ~chatLoading
  /\ \E t \in Turns : turns[t].pc = "done" /\ turns[t].sawDone

=============================================================================
